---- MODULE Spec2Model ----
(***************************************************************************)
(* A model of gencodec (src/main.go): the generator pipeline of            *)
(* makeMarshalingCode (newMarshalerType, loadOverrides, computeImports,    *)
(* the four method templates) and the behaviour of the methods it          *)
(* generates (MarshalJSON/YAML, UnmarshalJSON/YAML) when they run.         *)
(*                                                                         *)
(* Spec     one invocation of the generator on a struct and an optional    *)
(*          field-override struct.                                         *)
(* SpecRun  the generated methods of a struct at work: an encode and/or    *)
(*          a decode into a receiver.                                      *)
(***************************************************************************)
EXTENDS Integers, Sequences, FiniteSets, TLC

VARIABLES
    pc,        \* position in makeMarshalingCode / in the generated method
    styp,      \* the struct type looked up for -type: its fields, in order
    otyp,      \* the struct type looked up for -field-override (<<>>: none)
    Fields,    \* mtyp.Fields
    pkgName,   \* types.Package.Name() of every package (SetName changes it)
    seen,      \* computeImports' table: alias -> import path
    counter,   \* computeImports' clash counter
    w,         \* the output buffer: the pieces rendered so far
    stderr,    \* warnings and fatal messages
    format,    \* "json" or "yaml": which generated method pair runs
    x,         \* the receiver of the generated Unmarshal method
    x0,        \* the receiver as it was when Unmarshal was called
    orig,      \* the record MarshalJSON/MarshalYAML was called on
    doc,       \* the encoded document, per wire field
    dec,       \* var dec <Name>: the decoded wire record
    v,         \* var v <OrigName>: the local record being filled
    idx,       \* the field UnmarshalConversions' statements are at
    err        \* the error the generated Unmarshal method returned

vars == <<pc, styp, otyp, Fields, pkgName, seen, counter, w, stderr,
          format, x, x0, orig, doc, dec, v, idx, err>>

genVars == <<styp, otyp, Fields, pkgName, seen, counter, w, stderr>>
runVars == <<format, x, x0, orig, doc, dec, v, idx, err>>

\* The longest struct the generator is run on.
MaxFields == 2

-----------------------------------------------------------------------------
(* go/types, as far as main.go uses it.  A type is a sequence of           *)
(* constructors ("ptr", "slice", "chan") ending in a leaf: a basic type    *)
(* or a named type.                                                        *)

BasicTypes == {"string", "int", "byte"}

\* Named types: the package that declares them, their name, their underlying type.
NamedTypes == {"S", "aS", "bS", "dS", "jS", "aB"}

NamedPkg == [S |-> "own", aS |-> "a", bS |-> "b", dS |-> "d", jS |-> "j", aB |-> "a"]

NamedName == [S |-> "S", aS |-> "S", bS |-> "S", dS |-> "S", jS |-> "S", aB |-> "B"]

NamedUnder == [S |-> <<"string">>, aS |-> <<"string">>, bS |-> <<"string">>,
               dS |-> <<"string">>, jS |-> <<"string">>, aB |-> <<"slice", "byte">>]

\* Packages: "own" declares the struct; the others are imported by it.
Pkgs == {"own", "a", "b", "d", "j"}

PkgPath == [own |-> "main", a |-> "a/x", b |-> "b/x", d |-> "d/x_0", j |-> "my/json"]

\* The names the packages are declared with.
DeclaredName == [own |-> "main", a |-> "x", b |-> "x", d |-> "x_0", j |-> "json"]

isPointer(typ) == Len(typ) > 1 /\ Head(typ) = "ptr"

Elem(typ) == Tail(typ)

NewPointer(typ) == <<"ptr">> \o typ

ensurePointer(typ) == IF isPointer(typ) THEN typ ELSE NewPointer(typ)

isNamedType(typ) == Len(typ) = 1 /\ typ[1] \in NamedTypes

\* hasName of go/types: basic and named types have a name.
hasName(typ) == Len(typ) = 1

Underlying(typ) == IF isNamedType(typ) THEN NamedUnder[typ[1]] ELSE typ

isString(typ) == typ = <<"string">>

isInteger(typ) == typ \in {<<"int">>, <<"byte">>}

isBytesOrRunes(typ) == typ = <<"slice", "byte">>

\* types.AssignableTo: identical types, or identical underlying types of
\* which one at least has no name.
AssignableTo(V, T) ==
    \/ V = T
    \/ Underlying(V) = Underlying(T) /\ (~hasName(V) \/ ~hasName(T))

\* types.ConvertibleTo on these types.
ConvertibleTo(V, T) ==
    \/ AssignableTo(V, T)
    \/ Underlying(V) = Underlying(T)
    \/ isPointer(V) /\ isPointer(T) /\ Underlying(Elem(V)) = Underlying(Elem(T))
    \/ isInteger(Underlying(V)) /\ isInteger(Underlying(T))
    \/ (isInteger(Underlying(V)) \/ isBytesOrRunes(Underlying(V))) /\ isString(Underlying(T))
    \/ isString(Underlying(V)) /\ isBytesOrRunes(Underlying(T))

-----------------------------------------------------------------------------
(* Struct tags.  A tag is a function from its keys to their values; a      *)
(* value is a sequence of characters.                                      *)

NoTag == [k \in {} |-> <<>>]

\* reflect.StructTag.Get: "" for a key the tag does not have.
TagGet(tag, key) == IF key \in DOMAIN tag THEN tag[key] ELSE <<>>

HasPrefix(s, prefix) ==
    Len(s) >= Len(prefix) /\ SubSeq(s, 1, Len(prefix)) = prefix

\* strings.Index(s, c): the first position of c, 0-based; -1 when absent.
Index(s, c) ==
    IF \E i \in 1..Len(s) : s[i] = c
    THEN (CHOOSE i \in 1..Len(s) : s[i] = c /\ \A j \in 1..(i - 1) : s[j] # c) - 1
    ELSE -1

ToLower == [c \in {"A", "B", "C", "Z", "a", "b", "c", "z", "w", "t", "-", ",", "o"} |->
              CASE c = "A" -> "a" [] c = "B" -> "b" [] c = "C" -> "c" [] c = "Z" -> "z"
                [] OTHER -> c]

uncapitalize(s) == <<ToLower[s[1]]>> \o Tail(s)

-----------------------------------------------------------------------------
(* A struct field (types.Var and its tag): name, type, tag, anonymous.     *)
(* A marshalerField: field (the original field), typ (the wire type), tag. *)

UpperCase == {"A", "B", "C", "Z"}

\* types.Var.Exported: the name starts with an upper-case letter.
Exported(f) == f.name[1] \in UpperCase

\* errorf's message for the embedded-field warning, without the position.
errorf(OrigName, f) == <<OrigName, ".">> \o f.name \o <<"Warning: ignoring embedded field">>

\* The loop of newMarshalerType from field i on; acc holds Fields and the warnings.
RECURSIVE newMarshalerTypeLoop(_, _, _)
newMarshalerTypeLoop(st, i, acc) ==
    IF i > Len(st) THEN acc
    ELSE LET f  == st[i]
             mf == [field |-> f, typ |-> ensurePointer(f.type), tag |-> f.tag]
         IN IF ~Exported(f) THEN newMarshalerTypeLoop(st, i + 1, acc)
            ELSE IF f.anonymous
            THEN newMarshalerTypeLoop(st, i + 1,
                     [acc EXCEPT !.warnings = Append(@, errorf("T", f))])
            ELSE newMarshalerTypeLoop(st, i + 1,
                     [acc EXCEPT !.Fields = Append(@, mf)])

\* A slip newMarshalerType could make: embedded fields are warned about and kept.
newMarshalerTypeKeepsEmbedded(st) ==
    LET keep == SelectSeq(st, Exported)
    IN [Fields   |-> [i \in 1..Len(keep) |->
                        [field |-> keep[i], typ |-> ensurePointer(keep[i].type),
                         tag |-> keep[i].tag]],
        warnings |-> <<>>]

newMarshalerType(st) == newMarshalerTypeLoop(st, 1, [Fields |-> <<>>, warnings |-> <<>>])

\* fieldByName: the index of the first field of that name, 0 for nil.
fieldByName(fields, name) ==
    IF \E i \in 1..Len(fields) : fields[i].field.name = name
    THEN CHOOSE i \in 1..Len(fields) :
            /\ fields[i].field.name = name
            /\ \A j \in 1..(i - 1) : fields[j].field.name # name
    ELSE 0

\* The loop of loadOverrides from override field i on.  fatalf ends the
\* process: the loop stops with the message and the fields as they are.
RECURSIVE loadOverridesLoop(_, _, _)
loadOverridesLoop(fields, ot, i) ==
    IF i > Len(ot) THEN [fatal |-> "", Fields |-> fields]
    ELSE LET of == ot[i]
             n  == fieldByName(fields, of.name)
         IN IF of.anonymous \/ ~Exported(of)
            THEN [fatal |-> "field override type cannot have embedded or unexported fields",
                  Fields |-> fields]
            ELSE IF n = 0
            THEN [fatal |-> "no matching field", Fields |-> fields]
            ELSE IF ~ConvertibleTo(of.type, fields[n].field.type)
            THEN [fatal |-> "field override type is not convertible", Fields |-> fields]
            ELSE loadOverridesLoop([fields EXCEPT ![n].typ = ensurePointer(of.type)], ot, i + 1)

loadOverrides(fields, ot) == loadOverridesLoop(fields, ot, 1)

-----------------------------------------------------------------------------
(* computeImports.  st is its state: seen, counter, and names, the name of *)
(* every package (SetName writes it).                                      *)

\* seen[name] of a Go map: "" for a missing key.
MapGet(m, name) == IF name \in DOMAIN m THEN m[name] ELSE ""

MapPut(m, name, path) ==
    [n \in DOMAIN m \cup {name} |-> IF n = name THEN path ELSE m[n]]

\* strconv.Itoa
Itoa(n) == ToString(n)

\* pkg.SetName(name); the two always-referenced packages are added with a nil pkg.
SetName(names, pkg, name) == IF pkg = "nil" THEN names ELSE [names EXCEPT ![pkg] = name]

\* The closure add of computeImports.
add(st, name, path, pkg) ==
    IF MapGet(st.seen, name) # path
    THEN LET name1  == IF pkg # "nil" THEN "_" \o name ELSE name
             names1 == IF pkg # "nil" THEN SetName(st.names, pkg, name1) ELSE st.names
             clash  == MapGet(st.seen, name1) # ""
             name2  == IF clash THEN name1 \o "_" \o Itoa(st.counter) ELSE name1
         IN [seen    |-> MapPut(st.seen, name2, path),
             counter |-> IF clash THEN st.counter + 1 ELSE st.counter,
             names   |-> IF clash THEN SetName(names1, pkg, name2) ELSE names1]
    ELSE st

\* The closure addNamed of computeImports.
addNamed(st, typ) ==
    LET pkg == NamedPkg[typ]
    IN IF pkg # "own" THEN add(st, st.names[pkg], PkgPath[pkg], pkg) ELSE st

\* walkNamedTypes: the named types the callback is run for, in order.
RECURSIVE walkNamedTypes(_)
walkNamedTypes(typ) ==
    IF Len(typ) = 1
    THEN IF typ[1] \in NamedTypes THEN <<typ[1]>> ELSE <<>>
    ELSE walkNamedTypes(Tail(typ))

RECURSIVE addNamedAll(_, _)
addNamedAll(st, named) ==
    IF named = <<>> THEN st ELSE addNamedAll(addNamed(st, Head(named)), Tail(named))

\* The loop of computeImports over mtyp.Fields, from field i on.
RECURSIVE computeImportsLoop(_, _, _)
computeImportsLoop(st, fields, i) ==
    IF i > Len(fields) THEN st
    ELSE LET st1 == addNamedAll(st, walkNamedTypes(fields[i].typ))
             st2 == addNamedAll(st1, walkNamedTypes(fields[i].field.type))
         IN computeImportsLoop(st2, fields, i + 1)

computeImports(fields, names) ==
    LET st0 == [seen |-> [n \in {} |-> ""], counter |-> 0, names |-> names]
        st1 == add(st0, "json", "encoding/json", "nil")
        st2 == add(st1, "errors", "errors", "nil")
    IN computeImportsLoop(st2, fields, 1)

-----------------------------------------------------------------------------
(* Printing types and conversions.  Text is a sequence of tokens.          *)

\* The qualifier function typeString hands to types.TypeString.
qualifier(pkg, names) == IF pkg = "own" THEN "" ELSE names[pkg]

RECURSIVE typeString(_, _)
typeString(typ, names) ==
    IF Len(typ) = 1
    THEN IF typ[1] \in NamedTypes
         THEN LET q == qualifier(NamedPkg[typ[1]], names)
              IN IF q = "" THEN <<NamedName[typ[1]]>> ELSE <<q, ".", NamedName[typ[1]]>>
         ELSE typ
    ELSE (CASE Head(typ) = "ptr"   -> <<"*">>
            [] Head(typ) = "slice" -> <<"[]">>
            [] OTHER               -> <<"chan ">>) \o typeString(Tail(typ), names)

\* The packages typeString asks the qualifier function about, each with the
\* qualifier it prints.
typeQualifiers(typ, names) ==
    LET named == walkNamedTypes(typ)
    IN {<<NamedPkg[n], names[NamedPkg[n]]>> :
          n \in {named[i] : i \in {j \in 1..Len(named) : NamedPkg[named[j]] # "own"}}}

\* A slip conversionExpr could make: the second branch is lost, and a value
\* is never referenced.
conversionExprNoRef(valueExpr, from, to, names) ==
    LET deref == isPointer(from) /\ ~isPointer(to)
        expr1 == IF deref THEN <<"*">> \o valueExpr ELSE valueExpr
        from1 == IF deref THEN Elem(from) ELSE from
        cast  == ~AssignableTo(from1, to)
    IN [text  |-> IF cast THEN <<"(">> \o typeString(to, names) \o <<")(">> \o expr1 \o <<")">>
                  ELSE expr1,
        deref |-> deref, ref |-> FALSE, cast |-> cast, from |-> from1, to |-> to]

\* conversionExpr: the expression, and how it was built.
conversionExpr(valueExpr, from, to, names) ==
    LET deref == isPointer(from) /\ ~isPointer(to)
        ref   == ~isPointer(from) /\ isPointer(to)
        expr1 == IF deref THEN <<"*">> \o valueExpr
                 ELSE IF ref THEN <<"&">> \o valueExpr ELSE valueExpr
        from1 == IF deref THEN Elem(from)
                 ELSE IF ref THEN NewPointer(from) ELSE from
        cast  == ~AssignableTo(from1, to)
    IN [text  |-> IF cast THEN <<"(">> \o typeString(to, names) \o <<")(">> \o expr1 \o <<")">>
                  ELSE expr1,
        deref |-> deref, ref |-> ref, cast |-> cast, from |-> from1, to |-> to]

Convert(mf, variable, names) ==
    conversionExpr(<<variable, ".">> \o mf.field.name, mf.field.type, mf.typ, names)

ConvertBack(mf, variable, names) ==
    conversionExpr(<<variable, ".">> \o mf.field.name, mf.typ, mf.field.type, names)

\* isOptional
isOptional(mf, fmt) ==
    IF TagGet(mf.tag, "optional") = <<"t", "r", "u", "e">>
       \/ TagGet(mf.tag, "optional") = <<"y", "e", "s">>
    THEN TRUE
    ELSE HasPrefix(TagGet(mf.tag, fmt), <<"-">>)

\* encodedName
encodedName(mf, fmt) ==
    LET val0  == TagGet(mf.tag, fmt)
        comma == Index(val0, ",")
        val   == IF comma # -1 THEN SubSeq(val0, 1, comma) ELSE val0
    IN IF val = <<>> \/ val = <<"-">> THEN uncapitalize(mf.field.name) ELSE val

\* marshalerField.StructTag: the tag, carried over as it is.
StructTag(mf) == mf.tag

ToUpper == [json |-> "JSON", yaml |-> "YAML"]

\* TypeDecl: the fields of the intermediate type's declaration.
TypeDecl(fields, names) ==
    [i \in 1..Len(fields) |->
        [Name |-> fields[i].field.name, Type |-> typeString(fields[i].typ, names),
         StructTag |-> StructTag(fields[i])]]

\* The body of the Marshal templates: one keyed element per field.
MarshalBody(fields, names) ==
    [i \in 1..Len(fields) |->
        [Name |-> fields[i].field.name, Conv |-> Convert(fields[i], "x", names).text]]

\* UnmarshalConversions: one statement per field.
UnmarshalConversions(fields, formatTag, names) ==
    [i \in 1..Len(fields) |->
        [Typ      |-> <<ToUpper[formatTag], " ", "T">>,
         Name     |-> fields[i].field.name,
         EncName  |-> encodedName(fields[i], formatTag),
         Conv     |-> ConvertBack(fields[i], "dec", names).text,
         optional |-> isOptional(fields[i], formatTag)]]

\* The qualified packages a rendered method prints: in its type declaration
\* and in its conversions' casts.
PrintedQualifiers(fields, names, back) ==
    UNION {typeQualifiers(fields[i].typ, names) : i \in 1..Len(fields)}
    \cup UNION {IF back
                THEN IF ConvertBack(fields[i], "dec", names).cast
                     THEN typeQualifiers(fields[i].field.type, names) ELSE {}
                ELSE IF Convert(fields[i], "x", names).cast
                     THEN typeQualifiers(fields[i].typ, names) ELSE {}
                : i \in 1..Len(fields)}

-----------------------------------------------------------------------------
(* The inputs of one invocation: the struct and the override struct.       *)

UpperNames == <<"A", "B", "C", "D">>
LowerNames == <<"a", "b", "c", "d">>

OptionalTrue == [optional |-> <<"t", "r", "u", "e">>]

GenTypes == {<<"string">>, <<"ptr", "string">>, <<"slice", "byte">>, <<"S">>,
             <<"aS">>, <<"ptr", "bS">>, <<"dS">>, <<"jS">>}

\* What a field of the struct may be like: of any type; tagged; unexported; embedded.
GenKinds ==
    {[type |-> t, tag |-> NoTag, exported |-> TRUE, anonymous |-> FALSE] : t \in GenTypes}
    \cup {[type |-> <<"string">>, tag |-> OptionalTrue, exported |-> TRUE, anonymous |-> FALSE],
          [type |-> <<"string">>, tag |-> NoTag, exported |-> FALSE, anonymous |-> FALSE],
          [type |-> <<"aS">>, tag |-> NoTag, exported |-> TRUE, anonymous |-> TRUE]}

\* The i-th field of a struct: field names are distinct.
MakeField(k, i) ==
    [name      |-> IF k.exported THEN <<UpperNames[i]>> ELSE <<LowerNames[i]>>,
     type      |-> k.type,
     tag       |-> k.tag,
     anonymous |-> k.anonymous]

StructsOf(kinds, n) ==
    {[i \in 1..n |-> MakeField(ks[i], i)] : ks \in [1..n -> kinds]}

GenStructs == UNION {StructsOf(GenKinds, n) : n \in 0..MaxFields}

OverrideTypes == {<<"int">>, <<"aS">>, <<"dS">>, <<"aB">>, <<"ptr", "aS">>}

OverrideField(name, type) == [name |-> name, type |-> type, tag |-> NoTag, anonymous |-> FALSE]

\* The override struct: none, one field, or two.
GenOverrides ==
    {<<>>}
    \cup {<<OverrideField(<<n>>, t)>> : n \in {"A", "B", "Z"}, t \in OverrideTypes}
    \cup {<<OverrideField(<<"a">>, <<"string">>)>>,
          <<[OverrideField(<<"A">>, <<"aS">>) EXCEPT !.anonymous = TRUE]>>,
          <<OverrideField(<<"A">>, <<"dS">>), OverrideField(<<"B">>, <<"aS">>)>>,
          <<OverrideField(<<"B">>, <<"aB">>), OverrideField(<<"Z">>, <<"aS">>)>>}

\* error(nil)
NilError == [kind |-> "nil", field |-> 0, EncName |-> <<>>, Typ |-> <<>>]

\* The run-time variables before any generated method has run.
RunIdle ==
    /\ format = "json"
    /\ x = <<>> /\ x0 = <<>> /\ orig = <<>>
    /\ doc = <<>> /\ dec = <<>> /\ v = <<>>
    /\ idx = 0 /\ err = NilError

Init ==
    /\ pc = "newMarshalerType"
    /\ styp \in GenStructs
    /\ otyp \in GenOverrides
    /\ Fields = <<>>
    /\ pkgName = DeclaredName
    /\ seen = [n \in {} |-> ""]
    /\ counter = 0
    /\ w = <<>>
    /\ stderr = <<>>
    /\ RunIdle

-----------------------------------------------------------------------------
(* makeMarshalingCode, statement by statement.                             *)

\* mtyp := newMarshalerType(fs, pkg, typ)
NewMarshalerType ==
    /\ pc = "newMarshalerType"
    /\ LET r == newMarshalerType(styp)
       IN /\ Fields' = r.Fields
          /\ stderr' = stderr \o r.warnings
    /\ pc' = IF otyp # <<>> THEN "loadOverrides" ELSE "computeImports"
    /\ UNCHANGED <<styp, otyp, pkgName, seen, counter, w>>
    /\ UNCHANGED runVars

\* mtyp.loadOverrides(otypename, otyp.Underlying().(*types.Struct))
LoadOverrides ==
    /\ pc = "loadOverrides"
    /\ LET r == loadOverrides(Fields, otyp)
       IN /\ Fields' = r.Fields
          /\ stderr' = IF r.fatal # "" THEN Append(stderr, <<r.fatal>>) ELSE stderr
          /\ pc' = IF r.fatal # "" THEN "fatal" ELSE "computeImports"
    /\ UNCHANGED <<styp, otyp, pkgName, seen, counter, w>>
    /\ UNCHANGED runVars

\* fmt.Fprintln(w, render(mtyp.computeImports(), `import (...)`))
ComputeImports ==
    /\ pc = "computeImports"
    /\ LET st == computeImports(Fields, pkgName)
       IN /\ seen' = st.seen
          /\ counter' = st.counter
          /\ pkgName' = st.names
          /\ w' = Append(w, [method |-> "import", table |-> st.seen])
    /\ pc' = "JSONMarshalMethod"
    /\ UNCHANGED <<styp, otyp, Fields, stderr>>
    /\ UNCHANGED runVars

\* What a Marshal template renders.
MarshalMethod(name) ==
    [method |-> name,
     decl   |-> TypeDecl(Fields, pkgName),
     body   |-> MarshalBody(Fields, pkgName),
     quals  |-> PrintedQualifiers(Fields, pkgName, FALSE)]

\* What an Unmarshal template renders.
UnmarshalMethod(name, formatTag) ==
    [method |-> name,
     decl   |-> TypeDecl(Fields, pkgName),
     body   |-> UnmarshalConversions(Fields, formatTag, pkgName),
     quals  |-> PrintedQualifiers(Fields, pkgName, TRUE)]

\* fmt.Fprintln(w, mtyp.JSONMarshalMethod())
JSONMarshalMethod ==
    /\ pc = "JSONMarshalMethod"
    /\ w' = Append(w, MarshalMethod("MarshalJSON"))
    /\ pc' = "JSONUnmarshalMethod"
    /\ UNCHANGED <<styp, otyp, Fields, pkgName, seen, counter, stderr>>
    /\ UNCHANGED runVars

\* fmt.Fprintln(w, mtyp.JSONUnmarshalMethod())
JSONUnmarshalMethod ==
    /\ pc = "JSONUnmarshalMethod"
    /\ w' = Append(w, UnmarshalMethod("UnmarshalJSON", "json"))
    /\ pc' = "YAMLMarshalMethod"
    /\ UNCHANGED <<styp, otyp, Fields, pkgName, seen, counter, stderr>>
    /\ UNCHANGED runVars

\* fmt.Fprintln(w, mtyp.YAMLMarshalMethod())
YAMLMarshalMethod ==
    /\ pc = "YAMLMarshalMethod"
    /\ w' = Append(w, MarshalMethod("MarshalYAML"))
    /\ pc' = "YAMLUnmarshalMethod"
    /\ UNCHANGED <<styp, otyp, Fields, pkgName, seen, counter, stderr>>
    /\ UNCHANGED runVars

\* fmt.Fprintln(w, mtyp.YAMLUnmarshalMethod()); the body is returned.
YAMLUnmarshalMethod ==
    /\ pc = "YAMLUnmarshalMethod"
    /\ w' = Append(w, UnmarshalMethod("UnmarshalYAML", "yaml"))
    /\ pc' = "done"
    /\ UNCHANGED <<styp, otyp, Fields, pkgName, seen, counter, stderr>>
    /\ UNCHANGED runVars

Next ==
    \/ NewMarshalerType
    \/ LoadOverrides
    \/ ComputeImports
    \/ JSONMarshalMethod
    \/ JSONUnmarshalMethod
    \/ YAMLMarshalMethod
    \/ YAMLUnmarshalMethod

Spec == Init /\ [][Next]_vars

-----------------------------------------------------------------------------
(* Properties of the generator.                                            *)

\* The field is visible and not embedded.
Included(f) == Exported(f) /\ ~f.anonymous

NamesOf(fs) == [i \in 1..Len(fs) |-> fs[i].name]

RenderedNames(body) == [i \in 1..Len(body) |-> body[i].Name]

\* C5: once newMarshalerType has run, mtyp.Fields holds exactly the fields
\* of the struct that are exported and not embedded, in declaration order,
\* each once; the override merge (also one that ends in a fatal error)
\* changes neither membership nor order; and the type declaration and the
\* body of each of the four rendered methods list exactly these fields.
C5_WireFieldsAreTheVisibleFields ==
    /\ pc # "newMarshalerType" =>
          [i \in 1..Len(Fields) |-> Fields[i].field] = SelectSeq(styp, Included)
    /\ \A k \in 1..Len(w) : w[k].method # "import" =>
          /\ RenderedNames(w[k].decl) = NamesOf(SelectSeq(styp, Included))
          /\ RenderedNames(w[k].body) = NamesOf(SelectSeq(styp, Included))

\* C5's case: a struct with a kept field whose type an override replaced and
\* a field that is dropped, all four methods rendered.
C5_Witness ==
    /\ pc = "done"
    /\ Len(w) = 5
    /\ \E i \in 1..Len(styp) : ~Included(styp[i])
    /\ \E i \in 1..Len(Fields) : Fields[i].typ # ensurePointer(Fields[i].field.type)

\* The wire type of field n is one the override merge put there.
Replaced(n) == Fields[n].typ # ensurePointer(Fields[n].field.type)

AfterOverrides ==
    {"computeImports", "JSONMarshalMethod", "JSONUnmarshalMethod",
     "YAMLMarshalMethod", "YAMLUnmarshalMethod", "done"}

\* Convertible from V to T, as the types are or as pointers to them.
ConvertibleNormalized(V, T) ==
    ConvertibleTo(V, T) \/ ConvertibleTo(ensurePointer(V), ensurePointer(T))

\* C6: as claimed, when the override merge has replaced a field's wire type
\* by an override field's type, that type is convertible to the field's
\* original type and the original type is convertible to it (each as
\* declared or after pointer normalization).
C6_ReplacedOnlyIfConvertibleBothWays ==
    pc \in AfterOverrides =>
        \A n \in 1..Len(Fields) : \A k \in 1..Len(otyp) :
            (otyp[k].name = Fields[n].field.name /\ Fields[n].typ = ensurePointer(otyp[k].type)
             /\ Replaced(n)) =>
                /\ ConvertibleNormalized(otyp[k].type, Fields[n].field.type)
                /\ ConvertibleNormalized(Fields[n].field.type, otyp[k].type)

\* The packages other than the struct's own that the fields' types refer to.
Referenced ==
    {NamedPkg[n] : n \in {m \in NamedTypes :
        \E i \in 1..Len(Fields) :
            \/ \E j \in 1..Len(walkNamedTypes(Fields[i].typ)) :
                  walkNamedTypes(Fields[i].typ)[j] = m
            \/ \E j \in 1..Len(walkNamedTypes(Fields[i].field.type)) :
                  walkNamedTypes(Fields[i].field.type)[j] = m}} \ {"own"}

AfterImports ==
    {"JSONMarshalMethod", "JSONUnmarshalMethod", "YAMLMarshalMethod",
     "YAMLUnmarshalMethod", "done"}

\* C7: as claimed, after computeImports no two referenced packages go by the
\* same alias, the two packages added first keep theirs, every referenced
\* package's path is in the table under the package's alias and under no
\* other, and the struct's own package is not in the table.
C7_AliasesAreUnique ==
    pc \in AfterImports =>
        /\ \A p, q \in Referenced : p # q => pkgName[p] # pkgName[q]
        /\ MapGet(seen, "json") = "encoding/json" /\ MapGet(seen, "errors") = "errors"
        /\ \A p \in Referenced :
              /\ MapGet(seen, pkgName[p]) = PkgPath[p]
              /\ \A a \in DOMAIN seen : seen[a] = PkgPath[p] => a = pkgName[p]
        /\ \A a \in DOMAIN seen : seen[a] # PkgPath["own"]

\* C8: as claimed, the import table is complete and written out before any
\* method is rendered, no package printed in a method is renamed
\* afterwards, and every qualifier printed in a method is the alias under
\* which the import table binds that package's path.
C8_QualifiersAreTheTableAliases ==
    /\ Len(w) >= 1 => w[1].method = "import" /\ w[1].table = seen
    /\ \A k \in 1..Len(w) : w[k].method # "import" =>
          \A pq \in w[k].quals :
              /\ pkgName[pq[1]] = pq[2]
              /\ MapGet(seen, pq[2]) = PkgPath[pq[1]]

\* The conversion neither references, nor dereferences, nor casts.
IsIdentity(e) == ~e.ref /\ ~e.deref /\ ~e.cast

\* C9, as claimed: for every field, Convert references exactly when
\* ConvertBack dereferences, is the identity exactly when ConvertBack is,
\* and casts exactly when ConvertBack casts.
C9_ConversionsAreSymmetric ==
    \A i \in 1..Len(Fields) :
        LET c == Convert(Fields[i], "x", pkgName)
            b == ConvertBack(Fields[i], "dec", pkgName)
        IN /\ c.ref <=> b.deref
           /\ IsIdentity(c) <=> IsIdentity(b)
           /\ c.cast <=> b.cast

\* The steps that render a method, and with it Convert or ConvertBack.
RenderStep ==
    \/ JSONMarshalMethod \/ JSONUnmarshalMethod
    \/ YAMLMarshalMethod \/ YAMLUnmarshalMethod

\* C9, amended: for every field, Convert references exactly when
\* ConvertBack dereferences; it is the identity exactly when ConvertBack
\* is; it casts whenever ConvertBack casts (it may cast where ConvertBack
\* does not); and rendering the conversions changes neither mtyp.Fields nor
\* any package's name nor the import table.
C9_ConversionsMirrorEachOther ==
    /\ [](\A i \in 1..Len(Fields) :
            LET c == Convert(Fields[i], "x", pkgName)
                b == ConvertBack(Fields[i], "dec", pkgName)
            IN /\ c.ref <=> b.deref
               /\ IsIdentity(c) <=> IsIdentity(b)
               /\ b.cast => c.cast)
    /\ [][RenderStep => UNCHANGED <<Fields, pkgName, seen>>]_vars

\* C9's case: all methods are rendered, for a struct with a field whose
\* type an override replaced and whose Convert references and casts while
\* its ConvertBack dereferences and does not cast.
C9_Witness ==
    /\ pc = "done"
    /\ \E i \in 1..Len(Fields) :
          /\ Replaced(i)
          /\ Convert(Fields[i], "x", pkgName).ref
          /\ Convert(Fields[i], "x", pkgName).cast
          /\ ConvertBack(Fields[i], "dec", pkgName).deref
          /\ ~ConvertBack(Fields[i], "dec", pkgName).cast

-----------------------------------------------------------------------------
(* The generated methods at run time.  A Go value is its type, whether it  *)
(* is a nil pointer, and the datum it holds or points to (0 is the zero    *)
(* datum).  A record is a sequence of values, one per field of mtyp.Fields.*)

\* The data a field holds.
Data == {0, 1}

Nil(typ) == [typ |-> typ, nil |-> TRUE, val |-> 0]

Value(typ, d) == [typ |-> typ, nil |-> FALSE, val |-> d]

\* The zero value of a type.
Zero(typ) == IF isPointer(typ) THEN Nil(typ) ELSE Value(typ, 0)

ValuesOf(typ) ==
    {Value(typ, d) : d \in Data} \cup (IF isPointer(typ) THEN {Nil(typ)} ELSE {})

\* &e
Ref(val) == [typ |-> NewPointer(val.typ), nil |-> FALSE, val |-> val.val]

\* *e of a pointer that is not nil
Deref(val) == [typ |-> Elem(val.typ), nil |-> FALSE, val |-> val.val]

\* The value of an expression conversionExpr built, applied to the value of
\* its valueExpr: the reference or dereference, then the cast, which keeps
\* the datum (the types have the same underlying type, or point to such).
Eval(e, val) ==
    LET val1 == IF e.deref THEN Deref(val) ELSE IF e.ref THEN Ref(val) ELSE val
    IN IF e.cast THEN [val1 EXCEPT !.typ = e.to] ELSE val1

\* The generated file compiles: every cast is a conversion Go allows.
Compiles(fields) ==
    \A i \in 1..Len(fields) :
        LET c == Convert(fields[i], "x", DeclaredName)
            b == ConvertBack(fields[i], "dec", DeclaredName)
        IN /\ c.cast => ConvertibleTo(c.from, c.to)
           /\ b.cast => ConvertibleTo(b.from, b.to)

\* encoding/json and yaml leave out a field whose tag is "-".
Skipped(mf, fmt) == TagGet(mf.tag, fmt) = <<"-">>

\* The tag's options hold omitempty (written "o").
OmitEmpty(mf, fmt) ==
    LET val == TagGet(mf.tag, fmt)
    IN Index(val, ",") # -1 /\ \E i \in (Index(val, ",") + 2)..Len(val) : val[i] = "o"

\* A document holds, for the key of each wire field: nothing, null, a
\* datum, or something that does not decode into the field's type.
Absent == [kind |-> "absent", val |-> 0]
Null == [kind |-> "null", val |-> 0]
Bad == [kind |-> "bad", val |-> 0]
Datum(d) == [kind |-> "value", val |-> d]

Entries == {Absent, Null, Bad} \cup {Datum(d) : d \in Data}

\* The wire record of the Marshal templates: Name: Convert "x" per field.
MarshalRecord(fields, rec) ==
    [i \in 1..Len(fields) |-> Eval(Convert(fields[i], "x", DeclaredName), rec[i])]

\* json.Marshal / the yaml encoder on the wire record.
Encode(fields, fmt, wire) ==
    [i \in 1..Len(fields) |->
        IF Skipped(fields[i], fmt) THEN Absent
        ELSE IF wire[i].nil THEN (IF OmitEmpty(fields[i], fmt) THEN Absent ELSE Null)
        ELSE Datum(wire[i].val)]

\* json.Unmarshal(input, &dec) / fn(&dec) fails.
DecodeFails(fields, fmt, d) ==
    \E i \in 1..Len(fields) : ~Skipped(fields[i], fmt) /\ d[i].kind = "bad"

\* json.Unmarshal(input, &dec) / fn(&dec) into var dec: a key that is
\* missing or null leaves the pointer nil.
Decode(fields, fmt, d) ==
    [i \in 1..Len(fields) |->
        IF Skipped(fields[i], fmt) \/ d[i].kind # "value"
        THEN Nil(fields[i].typ)
        ELSE Value(fields[i].typ, d[i].val)]

\* var v <OrigName>
ZeroRecord(fields) == [i \in 1..Len(fields) |-> Zero(fields[i].field.type)]

\* A slip the generated statement could make: it assigns to the receiver's
\* field, not to v's.
UnmarshalStatementIntoReceiver(fr, i, stmt, conv) ==
    IF stmt.optional
    THEN IF ~fr.dec[i].nil
         THEN [fr EXCEPT !.x[i] = Eval(conv, fr.dec[i]), !.idx = i + 1]
         ELSE [fr EXCEPT !.idx = i + 1]
    ELSE IF fr.dec[i].nil
         THEN [fr EXCEPT !.pc = "returned",
                         !.err = [kind |-> "missing", field |-> i,
                                  EncName |-> stmt.EncName, Typ |-> stmt.Typ]]
         ELSE [fr EXCEPT !.x[i] = Eval(conv, fr.dec[i]), !.idx = i + 1]

\* A slip the generated statement could make: a required field is checked
\* for presence and not assigned.
UnmarshalStatementChecksOnly(fr, i, stmt, conv) ==
    IF stmt.optional
    THEN IF ~fr.dec[i].nil
         THEN [fr EXCEPT !.v[i] = Eval(conv, fr.dec[i]), !.idx = i + 1]
         ELSE [fr EXCEPT !.idx = i + 1]
    ELSE IF fr.dec[i].nil
         THEN [fr EXCEPT !.pc = "returned",
                         !.err = [kind |-> "missing", field |-> i,
                                  EncName |-> stmt.EncName, Typ |-> stmt.Typ]]
         ELSE [fr EXCEPT !.idx = i + 1]

\* The statement UnmarshalConversions renders for field i, run on the frame
\* fr of the generated method (x, dec, v, the statement it is at, err).
UnmarshalStatement(fr, i, stmt, conv) ==
    IF stmt.optional
    THEN IF ~fr.dec[i].nil
         THEN [fr EXCEPT !.v[i] = Eval(conv, fr.dec[i]), !.idx = i + 1]
         ELSE [fr EXCEPT !.idx = i + 1]
    ELSE IF fr.dec[i].nil
         THEN [fr EXCEPT !.pc = "returned",
                         !.err = [kind |-> "missing", field |-> i,
                                  EncName |-> stmt.EncName, Typ |-> stmt.Typ]]
         ELSE [fr EXCEPT !.v[i] = Eval(conv, fr.dec[i]), !.idx = i + 1]

\* A slip the Unmarshal templates could make: only the fields that were
\* decoded are copied to the receiver.
UnmarshalReturnMerges(fr) ==
    [fr EXCEPT !.x = [i \in 1..Len(fr.x) |-> IF fr.dec[i].nil THEN fr.x[i] ELSE fr.v[i]],
               !.pc = "returned", !.err = NilError]

\* *x = v; return nil
UnmarshalReturn(fr) == [fr EXCEPT !.x = fr.v, !.pc = "returned", !.err = NilError]

-----------------------------------------------------------------------------
(* The generated methods of a struct, called.                              *)

\* The longest struct whose generated methods are run.
MaxRunFields == 2

OptionalYes == [optional |-> <<"y", "e", "s">>]
OptionalEmpty == [optional |-> <<>>]
JSONOmitted == [json |-> <<"-">>]
RenamedOmitEmpty == [json |-> <<"w", ",", "o">>, yaml |-> <<"w", ",", "o">>,
                     optional |-> <<"t", "r", "u", "e">>]
RenamedYAMLOmitted == [json |-> <<"w", "t">>, yaml |-> <<"-">>]

RunKind(type, tag) == [type |-> type, tag |-> tag, exported |-> TRUE, anonymous |-> FALSE]

\* What a field of the struct may be like.
RunKinds ==
    {RunKind(<<"string">>, NoTag), RunKind(<<"ptr", "string">>, NoTag),
     RunKind(<<"string">>, OptionalTrue), RunKind(<<"ptr", "string">>, OptionalYes),
     RunKind(<<"string">>, OptionalEmpty), RunKind(<<"string">>, JSONOmitted),
     RunKind(<<"ptr", "string">>, RenamedOmitEmpty),
     RunKind(<<"string">>, RenamedYAMLOmitted)}

RunStructs == UNION {StructsOf(RunKinds, n) : n \in 1..MaxRunFields}

RunOverrides == {<<>>, <<OverrideField(<<"A">>, <<"aS">>)>>, <<OverrideField(<<"A">>, <<"int">>)>>}

\* A record none of whose fields is at its zero value.
Dirty(fields) == [i \in 1..Len(fields) |-> Value(fields[i].field.type, 1)]

\* All records of the struct.
Records(fields) ==
    {r \in [1..Len(fields) -> UNION {ValuesOf(fields[i].field.type) : i \in 1..Len(fields)}] :
        \A i \in 1..Len(fields) : r[i].typ = fields[i].field.type}

\* The generator has run on the struct without a fatal error, its output
\* compiles, and a receiver of the struct's type exists.
InitRun ==
    /\ pc = "idle"
    /\ styp \in RunStructs
    /\ otyp \in RunOverrides
    /\ LET r == loadOverrides(newMarshalerType(styp).Fields, otyp)
       IN /\ r.fatal = ""
          /\ Compiles(r.Fields)
          /\ Fields = r.Fields
    /\ pkgName = computeImports(Fields, DeclaredName).names
    /\ seen = computeImports(Fields, DeclaredName).seen
    /\ counter = computeImports(Fields, DeclaredName).counter
    /\ w = <<>>
    /\ stderr = <<>>
    /\ format \in {"json", "yaml"}
    /\ x \in {ZeroRecord(Fields), Dirty(Fields)}
    /\ x0 = x
    /\ orig = <<>>
    /\ doc = <<>> /\ dec = <<>> /\ v = <<>>
    /\ idx = 0
    /\ err = NilError

\* MarshalJSON / MarshalYAML on some record, and the encoder on the result.
Marshal ==
    /\ pc = "idle"
    /\ \E rec \in Records(Fields) :
          /\ orig' = rec
          /\ doc' = Encode(Fields, format, MarshalRecord(Fields, rec))
    /\ pc' = "unmarshal"
    /\ UNCHANGED <<format, x, x0, dec, v, idx, err>>
    /\ UNCHANGED genVars

\* A caller hands UnmarshalJSON / UnmarshalYAML a document of its own.
Input ==
    /\ pc = "idle"
    /\ doc' \in [1..Len(Fields) -> Entries]
    /\ pc' = "unmarshal"
    /\ UNCHANGED <<format, x, x0, orig, dec, v, idx, err>>
    /\ UNCHANGED genVars

\* var dec; if err := json.Unmarshal(input, &dec); err != nil { return err }
\* var v
UnmarshalDecode ==
    /\ pc = "unmarshal"
    /\ IF DecodeFails(Fields, format, doc)
       THEN /\ pc' = "returned"
            /\ err' = [kind |-> "decoder", field |-> 0, EncName |-> <<>>, Typ |-> <<>>]
            /\ UNCHANGED <<dec, v, idx>>
       ELSE /\ pc' = "conversions"
            /\ dec' = Decode(Fields, format, doc)
            /\ v' = ZeroRecord(Fields)
            /\ idx' = 1
            /\ err' = err
    /\ UNCHANGED <<format, x, x0, orig, doc>>
    /\ UNCHANGED genVars

\* The frame of the running Unmarshal method.
Frame == [pc |-> pc, x |-> x, dec |-> dec, v |-> v, idx |-> idx, err |-> err]

SetFrame(fr) ==
    /\ pc' = fr.pc
    /\ x' = fr.x
    /\ dec' = fr.dec
    /\ v' = fr.v
    /\ idx' = fr.idx
    /\ err' = fr.err

\* The next statement of {{.UnmarshalConversions}}.
UnmarshalConversion ==
    /\ pc = "conversions"
    /\ idx <= Len(Fields)
    /\ SetFrame(UnmarshalStatement(Frame, idx,
                    UnmarshalConversions(Fields, format, pkgName)[idx],
                    ConvertBack(Fields[idx], "dec", pkgName)))
    /\ UNCHANGED <<format, x0, orig, doc>>
    /\ UNCHANGED genVars

\* *x = v; return nil
UnmarshalCommit ==
    /\ pc = "conversions"
    /\ idx > Len(Fields)
    /\ SetFrame(UnmarshalReturn(Frame))
    /\ UNCHANGED <<format, x0, orig, doc>>
    /\ UNCHANGED genVars

NextRun ==
    \/ Marshal
    \/ Input
    \/ UnmarshalDecode
    \/ UnmarshalConversion
    \/ UnmarshalCommit

SpecRun == InitRun /\ [][NextRun]_vars

-----------------------------------------------------------------------------
(* Properties of the generated methods.                                    *)

\* Field i must be present when the format is decoded.
Required(i) == ~isOptional(Fields[i], format)

\* The error names field i as the missing required field.
MissingError(i) == err.kind = "missing" /\ err.field = i

\* C1: as claimed, for every required field, when Unmarshal has returned:
\* if the field's key was missing from the document Unmarshal failed, with
\* the field's encoded name and the record's name in the error when the
\* error is about this field; and if the key was in the document, with a
\* datum or with null, Unmarshal did not fail for this field.
C1_RequiredFieldFailsOnlyWhenKeyIsMissing ==
    pc = "returned" =>
        \A i \in 1..Len(Fields) : Required(i) =>
            /\ doc[i].kind = "absent" => err.kind # "nil"
            /\ MissingError(i) =>
                  /\ err.EncName = encodedName(Fields[i], format)
                  /\ err.Typ = <<ToUpper[format], " ", "T">>
            /\ doc[i].kind \in {"null", "value"} => ~MissingError(i)

\* C2: when Unmarshal has returned, no optional field whose key the
\* document lacks is named by the error, such a field of the receiver is at
\* its zero value if Unmarshal returned nil, whatever it was before, and
\* Unmarshal returned nil if the document decoded and held a datum for
\* every required field.
C2_OptionalFieldAbsentIsZero ==
    pc = "returned" =>
        /\ \A i \in 1..Len(Fields) : (~Required(i) /\ doc[i].kind = "absent") =>
              /\ ~MissingError(i)
              /\ err.kind = "nil" => x[i] = Zero(Fields[i].field.type)
        /\ (/\ ~DecodeFails(Fields, format, doc)
            /\ \A i \in 1..Len(Fields) : Required(i) => doc[i].kind = "value")
           => err.kind = "nil"

\* C2's case: Unmarshal returned nil for a document that lacks the key of an
\* optional field, which the receiver held a datum in before.
C2_Witness ==
    /\ pc = "returned"
    /\ err.kind = "nil"
    /\ \E i \in 1..Len(Fields) :
          /\ ~Required(i)
          /\ ~Skipped(Fields[i], format)
          /\ doc[i].kind = "absent"
          /\ x0[i] # Zero(Fields[i].field.type)

HasOptionalKey(i) == "optional" \in DOMAIN Fields[i].tag

\* C4: as claimed, when Unmarshal has returned, a field whose tag has the
\* key "optional", with whatever value, is not named as a missing required
\* field; and a field that has neither that key nor a format tag that
\* starts with "-" makes Unmarshal fail when its key is missing.
C4_OptionalTagMakesOptional ==
    pc = "returned" =>
        \A i \in 1..Len(Fields) :
            /\ HasOptionalKey(i) => ~MissingError(i)
            /\ (/\ ~HasOptionalKey(i)
                /\ ~HasPrefix(TagGet(Fields[i].tag, format), <<"-">>)
                /\ doc[i].kind = "absent") => err.kind # "nil"

\* C10: the receiver is as it was when Unmarshal was called unless
\* Unmarshal has returned nil, and then it is the local record v; while
\* the statements run, the fields of v not yet reached are at their zero
\* values; and a missing-field error names the first required field, in
\* declaration order, that was not decoded.
C10_DecodeIsAllOrNothing ==
    /\ (pc # "returned" \/ err.kind # "nil") => x = x0
    /\ (pc = "returned" /\ err.kind = "nil") => x = v
    /\ pc = "conversions" =>
          \A j \in idx..Len(Fields) : v[j] = Zero(Fields[j].field.type)
    /\ (pc = "returned" /\ err.kind = "missing") =>
          /\ dec[err.field].nil /\ Required(err.field)
          /\ \A j \in 1..(err.field - 1) : Required(j) => ~dec[j].nil

\* C10's case: Unmarshal failed at a field after the first, when a field
\* before it had been converted into v to a value the receiver did not
\* hold; and in another behaviour the decoder itself failed.
C10_Witness ==
    /\ pc = "returned"
    /\ err.kind = "missing"
    /\ err.field > 1
    /\ v[1] # x0[1]
    /\ v[1] # Zero(Fields[1].field.type)

====
